---- MODULE Spec2Model ----
(***************************************************************************)
(* Namespace lifecycle manager (internal/kube) behind its HTTP handlers    *)
(* (internal/httpserver): create with TTL annotations, list with derived   *)
(* remaining TTL, delete with a polling confirmation loop.                 *)
(*                                                                         *)
(* The Kubernetes API server is the gateway.  Its answers are the          *)
(* nondeterministic part of every action; the manager code is translated   *)
(* statement by statement.                                                 *)
(***************************************************************************)
EXTENDS Integers, Sequences, FiniteSets, TLC

VARIABLES
    store,      \* the gateway's namespace records, in its enumeration order
    now,        \* the wall clock read by time.Now() / time.Until()
    made,       \* history: name -> clock reading and ttlHours of the create that wrote it
    lastOp,     \* the create or list call that returned in the latest step, if one did
    dpc,        \* position of the delete call in flight: idle, poll, select, done
    dname,      \* its name argument
    elapsed,    \* milliseconds since context.WithTimeout started the 30 s timer
    delCount,   \* DeleteRecord calls the delete call has issued
    getCount,   \* GetRecord polls the delete call has issued
    submitErr,  \* the gateway's answer to its DeleteRecord call
    lastPoll,   \* outcome of its latest GetRecord poll
    stayed,     \* history: the record was resolvable at the gateway ever since submit
    reqCancelled, \* the HTTP request's context (r.Context()) has been cancelled
    polledAfterCancel, \* history: a poll was issued after that cancellation
    outcome,    \* the return statement the delete call left by
    dret,       \* the error DeleteNamespace returned ("nil" for success)
    dresp       \* the HTTP response of the delete handler

vars == <<store, now, made, lastOp, dpc, dname, elapsed, delCount, getCount, submitErr,
          lastPoll, stayed, reqCancelled, polledAfterCancel, outcome, dret, dresp>>

delVars == <<dpc, dname, elapsed, delCount, getCount, submitErr, lastPoll, stayed,
             reqCancelled, polledAfterCancel, outcome, dret, dresp>>

-----------------------------------------------------------------------------
(* Bounds of the model *)

\* clock resolution: ticks per second (the real clock counts nanoseconds)
TicksPerSecond == 2
\* the wall clock advances by whole hours up to this many hours
MaxHours == 2
\* create requests carry every ttl of 1..MaxTTL, besides those of LargeTTLs
MaxTTL == 2

(* Program constants *)

\* time.Hour, in seconds
SecondsPerHour == 3600
\* context.WithTimeout(..., 30*time.Second), in milliseconds
TimeoutMs == 30000
\* time.Sleep(500 * time.Millisecond), in milliseconds
PollIntervalMs == 500
\* the most hours whose nanosecond count fits the int64 of a time.Duration:
\* (2^63 - 1) \div (3600 * 10^9)
MaxDurationHours == 2562047
\* 2^64 nanoseconds, the modulus of an int64 product, as
\* WrapHours hours + WrapSeconds seconds + WrapNanos nanoseconds
WrapHours == 5124095
WrapSeconds == 2073
WrapNanos == 709551616

TicksPerHour == SecondsPerHour * TicksPerSecond

\* the name requests carry; the gateway also holds records under OtherNames
Names == {"a"}
OtherNames == {"b"}
Owners == {"alice", "bob"}
Teams == {"infra"}

-----------------------------------------------------------------------------
(* Strings.  A string is a record so that every annotation value has one   *)
(* shape: plain text is [txt |-> ...]; the text time.Format(RFC3339)       *)
(* produces is [ts |-> ...] holding the instant to the second, which is    *)
(* all that layout prints.                                                 *)

Str(s) == [txt |-> s]

\* Go map lookup: a missing key reads as the empty string
Lookup(ann, k) == IF k \in DOMAIN ann THEN ann[k] ELSE Str("")

-----------------------------------------------------------------------------
(* Instants and durations: h whole hours plus t ticks, 0 <= t < TicksPerHour *)

Norm(h, t) == [h |-> h + (t \div TicksPerHour), t |-> t % TicksPerHour]

\* time.Time.Add
Add(tm, d) == Norm(tm.h + d.h, tm.t + d.t)

\* time.Time.Sub / time.Until
Sub(a, b) == Norm(a.h - b.h, a.t - b.t)

\* remaining > 0
Positive(d) == d.h > 0 \/ (d.h = 0 /\ d.t > 0)

\* int(d.Hours()): the float of h + t/TicksPerHour truncated toward zero
HoursInt(d) == IF d.h >= 0 \/ d.t = 0 THEN d.h ELSE d.h + 1

\* 2^64 nanoseconds beyond WrapHours hours, rounded up to whole ticks (the
\* count of ticks is never whole: WrapNanos is not a multiple of a tick)
WrapTicks ==
    WrapSeconds * TicksPerSecond
        + ((WrapNanos \div 1000) * TicksPerSecond) \div 1000000 + 1

\* time.Duration(ttlHours) * time.Hour, an int64 product: ttlHours hours while
\* that fits, and 2^64 nanoseconds less (a negative duration) from
\* MaxDurationHours + 1 up to WrapHours, the range the model's requests stay
\* in.  A duration is kept in whole ticks, rounded down: clock readings are
\* whole ticks and seconds are whole ticks, so the second a sum falls in is
\* the one the nanosecond count gives.
HoursToDuration(ttlHours) ==
    IF ttlHours <= MaxDurationHours
    THEN [h |-> ttlHours, t |-> 0]
    ELSE Norm(ttlHours - WrapHours, 0 - WrapTicks)

\* time.Time{} : the zero instant
ZeroTime == [zero |-> TRUE]

\* Time.Format(time.RFC3339): the layout has no fractional seconds
FormatRFC3339(tm) == [ts |-> [h |-> tm.h, s |-> tm.t \div TicksPerSecond]]

\* time.Parse(time.RFC3339, s): the instant, or the zero Time and an error
ParseRFC3339(s) ==
    IF "ts" \in DOMAIN s
    THEN [err |-> FALSE, time |-> [h |-> s.ts.h, t |-> s.ts.s * TicksPerSecond]]
    ELSE [err |-> TRUE, time |-> ZeroTime]

\* metav1.Time of the gateway: creationTimestamp has second precision
TruncSecond(tm) == [h |-> tm.h, t |-> (tm.t \div TicksPerSecond) * TicksPerSecond]

-----------------------------------------------------------------------------
(* The gateway's store *)

StoreNames(s) == {s[i].name : i \in 1..Len(s)}

Find(s, n) == CHOOSE i \in 1..Len(s) : s[i].name = n

InsertAt(s, i, r) == SubSeq(s, 1, i) \o <<r>> \o SubSeq(s, i + 1, Len(s))

RemoveName(s, n) == SelectSeq(s, LAMBDA r : r.name # n)

\* annotations of records that exist without the manager: no reserved
\* annotation, an owner and no expiry, an expiry that is not a timestamp
ForeignAnnotations ==
    { [purpose |-> Str("system")],
      [owner |-> Str("alice")],
      [owner |-> Str("bob"), team |-> Str("infra"), expires_at |-> Str("soon")] }

\* annotations an earlier CreateNamespace call wrote
EarlierAnnotations ==
    { [owner |-> Str(o), team |-> Str("infra"), expires_at |-> FormatRFC3339(e)] :
        o \in Owners, e \in {[h |-> 1, t |-> 0], [h |-> 2, t |-> TicksPerSecond]} }

InitRecord(n, ann) ==
    [name |-> n, ann |-> ann, createdAt |-> [h |-> 0, t |-> 0], terminating |-> FALSE]

\* every store of up to two records, in either enumeration order
InitStores ==
    LET A == ForeignAnnotations \cup EarlierAnnotations
    IN  {<<>>}
        \cup { <<InitRecord(n, x)>> : n \in Names \cup OtherNames, x \in A }
        \cup { <<InitRecord("a", x), InitRecord("b", y)>> : x \in A, y \in A }
        \cup { <<InitRecord("b", y), InitRecord("a", x)>> : x \in A, y \in A }

\* a few stores: empty, the name present, the name present after another record
FewStores ==
    LET mine == [owner |-> Str("alice"), team |-> Str("infra"),
                 expires_at |-> FormatRFC3339([h |-> 1, t |-> 0])]
    IN  { <<>>,
          <<InitRecord("b", [purpose |-> Str("system")])>>,
          <<InitRecord("a", mine)>>,
          <<InitRecord("b", [purpose |-> Str("system")]), InitRecord("a", mine)>> }

-----------------------------------------------------------------------------
(* Client.CreateNamespace and its handler *)

NoOp == [op |-> "none", gw |-> <<>>]

\* the namespace object CreateNamespace builds
NewNamespace(name, ttlHours, owner, team) ==
    [name |-> name,
     ann  |-> [owner |-> Str(owner),
               team |-> Str(team),
               expires_at |-> FormatRFC3339(Add(now, HoursToDuration(ttlHours)))]]

\* what Namespaces().Create may answer: the gateway enforces name uniqueness
CreateOutcomes(name) ==
    IF name \in StoreNames(store) THEN {"conflict", "transport", "other"}
    ELSE {"nil", "transport", "other"}

\* the error text the shim writes for a validation failure, "" when valid
CreateValidation(method, name, ttl, owner, team) ==
    IF method # "POST" THEN [status |-> 405, body |-> "Method not allowed. Use POST"]
    ELSE IF name = "" THEN [status |-> 400, body |-> "Missing required field: name"]
    ELSE IF owner = "" THEN [status |-> 400, body |-> "Missing required field: owner"]
    ELSE IF team = "" THEN [status |-> 400, body |-> "Missing required field: team"]
    ELSE IF ttl <= 0 THEN [status |-> 400, body |-> "TTL must be greater than 0"]
    ELSE [status |-> 0, body |-> ""]

\* where the gateway's enumeration puts a record it accepts
InsertPositions(err) == IF err = "nil" THEN 0..Len(store) ELSE {0}

\* (mutation) an existing record is overwritten instead of the conflict
\* being returned
CreateNamespace_Upsert(name, ttlHours, owner, team) ==
    \E err \in CreateOutcomes(name) : \E pos \in InsertPositions(err) :
        LET ns == NewNamespace(name, ttlHours, owner, team)
            call == [m |-> "CreateRecord", name |-> ns.name, ann |-> ns.ann]
            upd == [m |-> "UpdateRecord", name |-> ns.name, ann |-> ns.ann]
        IN  /\ store' = IF err = "nil"
                        THEN InsertAt(store, pos,
                                 [name |-> ns.name, ann |-> ns.ann,
                                  createdAt |-> TruncSecond(now),
                                  terminating |-> FALSE])
                        ELSE IF err = "conflict"
                        THEN [store EXCEPT ![Find(store, name)].ann = ns.ann]
                        ELSE store
            /\ made' = IF err \in {"nil", "conflict"}
                       THEN [n \in DOMAIN made \cup {name} |->
                               IF n = name THEN [at |-> now, ttl |-> ttlHours]
                               ELSE made[n]]
                       ELSE made
            /\ lastOp' = [op |-> "create", name |-> name, ttl |-> ttlHours,
                          owner |-> owner, team |-> team,
                          gw |-> IF err = "conflict" THEN <<call, upd>> ELSE <<call>>,
                          gwErr |-> err,
                          ret |-> IF err = "conflict" THEN "nil" ELSE err,
                          status |-> IF err \in {"nil", "conflict"} THEN 201 ELSE 500,
                          body |-> IF err \in {"nil", "conflict"}
                                   THEN "Namespace created successfully"
                                   ELSE err]

\* (mutation) a failed Create call is tried once more
CreateNamespace_Retry(name, ttlHours, owner, team) ==
    \E err \in CreateOutcomes(name) : \E pos \in InsertPositions(err) :
        LET ns == NewNamespace(name, ttlHours, owner, team)
            call == [m |-> "CreateRecord", name |-> ns.name, ann |-> ns.ann]
        IN  /\ store' = IF err = "nil"
                        THEN InsertAt(store, pos,
                                 [name |-> ns.name, ann |-> ns.ann,
                                  createdAt |-> TruncSecond(now),
                                  terminating |-> FALSE])
                        ELSE store
            /\ made' = IF err = "nil"
                       THEN [n \in DOMAIN made \cup {name} |->
                               IF n = name THEN [at |-> now, ttl |-> ttlHours]
                               ELSE made[n]]
                       ELSE made
            /\ lastOp' = [op |-> "create", name |-> name, ttl |-> ttlHours,
                          owner |-> owner, team |-> team,
                          gw |-> IF err = "nil" THEN <<call>> ELSE <<call, call>>,
                          gwErr |-> err, ret |-> err,
                          status |-> IF err = "nil" THEN 201 ELSE 500,
                          body |-> IF err = "nil" THEN "Namespace created successfully"
                                   ELSE err]

\* CreateNamespace: one Create call, its error returned as it is
CreateNamespace(name, ttlHours, owner, team) ==
    \E err \in CreateOutcomes(name) : \E pos \in InsertPositions(err) :
        LET ns == NewNamespace(name, ttlHours, owner, team)
            call == [m |-> "CreateRecord", name |-> ns.name, ann |-> ns.ann]
        IN  /\ store' = IF err = "nil"
                        THEN InsertAt(store, pos,
                                 [name |-> ns.name, ann |-> ns.ann,
                                  createdAt |-> TruncSecond(now),
                                  terminating |-> FALSE])
                        ELSE store
            /\ made' = IF err = "nil"
                       THEN [n \in DOMAIN made \cup {name} |->
                               IF n = name THEN [at |-> now, ttl |-> ttlHours]
                               ELSE made[n]]
                       ELSE made
            /\ lastOp' = [op |-> "create", name |-> name, ttl |-> ttlHours,
                          owner |-> owner, team |-> team,
                          gw |-> <<call>>, gwErr |-> err, ret |-> err,
                          status |-> IF err = "nil" THEN 201 ELSE 500,
                          body |-> IF err = "nil" THEN "Namespace created successfully"
                                   ELSE err]

\* the largest ttl whose duration fits, and the first one past it
LargeTTLs == {MaxDurationHours, MaxDurationHours + 1}

\* the requests tried: valid ones over every ttl and every owner, and one for
\* each validation failure
CreateRequests ==
    { [method |-> "POST", name |-> n, ttl |-> k, owner |-> "alice", team |-> t] :
        n \in Names, k \in (1..MaxTTL) \cup LargeTTLs, t \in Teams }
    \cup { [method |-> "POST", name |-> n, ttl |-> 1, owner |-> o, team |-> t] :
              n \in Names, o \in Owners, t \in Teams }
    \cup { [method |-> "GET", name |-> "a", ttl |-> 1, owner |-> "alice", team |-> "infra"],
           [method |-> "POST", name |-> "", ttl |-> 1, owner |-> "alice", team |-> "infra"],
           [method |-> "POST", name |-> "a", ttl |-> 1, owner |-> "", team |-> "infra"],
           [method |-> "POST", name |-> "a", ttl |-> 1, owner |-> "alice", team |-> ""],
           [method |-> "POST", name |-> "a", ttl |-> 0, owner |-> "alice", team |-> "infra"],
           [method |-> "POST", name |-> "a", ttl |-> -1, owner |-> "alice", team |-> "infra"] }

HandleCreateNamespaceRequest ==
    \E req \in CreateRequests :
        LET bad == CreateValidation(req.method, req.name, req.ttl, req.owner, req.team)
        IN  /\ IF bad.status # 0
               THEN /\ lastOp' = [op |-> "rejected", status |-> bad.status,
                                  body |-> bad.body, gw |-> <<>>]
                    /\ UNCHANGED <<store, made>>
               ELSE CreateNamespace(req.name, req.ttl, req.owner, req.team)
            /\ UNCHANGED <<now, delVars>>

-----------------------------------------------------------------------------
(* Client.ListNamespaces and its handler *)

\* (mutation) a record without an owner passes every filter
Skipped_UnownedShown(nsOwner, owner) ==
    owner # "" /\ nsOwner # Str("") /\ nsOwner # Str(owner)

\* the owner filter: the record is skipped
Skipped(nsOwner, owner) == owner # "" /\ nsOwner # Str(owner)

\* (mutation) the hours are rounded up instead of truncated
ExpiryOf_RoundsUp(expiresAtStr, clock) ==
    IF expiresAtStr # Str("")
    THEN LET parsed == ParseRFC3339(expiresAtStr)
             remaining == Sub(parsed.time, clock)
         IN  [expiresAt |-> parsed.time,
              ttl |-> IF ~parsed.err /\ Positive(remaining)
                      THEN (IF remaining.t = 0 THEN remaining.h ELSE remaining.h + 1)
                      ELSE 0]
    ELSE [expiresAt |-> ZeroTime, ttl |-> 0]

\* (mutation) a record without a usable expires_at counts as not expiring
ExpiryOf_MissingNeverExpires(expiresAtStr, clock) ==
    LET parsed == ParseRFC3339(expiresAtStr)
        remaining == Sub(parsed.time, clock)
    IN  IF parsed.err
        THEN [expiresAt |-> ZeroTime, ttl |-> 1]
        ELSE [expiresAt |-> parsed.time,
              ttl |-> IF Positive(remaining) THEN HoursInt(remaining) ELSE 0]

\* expiresAt and ttl as the loop body leaves them for one record
ExpiryOf(expiresAtStr, clock) ==
    IF expiresAtStr # Str("")
    THEN LET parsed == ParseRFC3339(expiresAtStr)
             remaining == Sub(parsed.time, clock)
         IN  [expiresAt |-> parsed.time,
              ttl |-> IF ~parsed.err /\ Positive(remaining)
                      THEN HoursInt(remaining)
                      ELSE 0]
    ELSE [expiresAt |-> ZeroTime, ttl |-> 0]

\* one pass of the loop body for record ns: the view appended, or none when
\* the owner filter skips the record
ViewOf(ns, owner, clock) ==
    LET nsOwner == Lookup(ns.ann, "owner")
        team == Lookup(ns.ann, "team")
        expiry == ExpiryOf(Lookup(ns.ann, "expires_at"), clock)
    IN  IF Skipped(nsOwner, owner)
        THEN <<>>
        ELSE << [Name |-> ns.name, Owner |-> nsOwner, Team |-> team,
                 CreatedAt |-> ns.createdAt, ExpiresAt |-> expiry.expiresAt,
                 TTL |-> expiry.ttl] >>

\* the loop over namespaces.Items, in their order
RECURSIVE ListNamespaces(_, _, _)
ListNamespaces(items, owner, clock) ==
    IF items = <<>> THEN <<>>
    ELSE ViewOf(Head(items), owner, clock) \o ListNamespaces(Tail(items), owner, clock)

\* what Namespaces().List may answer
ListOutcomes == {"nil", "transport"}

\* the filters tried: none, each owner, and a proper prefix of an owner
OwnerFilters == Owners \cup {"", "al"}

HandleListNamespacesRequest ==
    \E method \in {"GET", "POST"} :
        /\ IF method # "GET"
           THEN lastOp' = [op |-> "rejected", status |-> 405,
                           body |-> "Method not allowed. Use GET", gw |-> <<>>]
           ELSE \E err \in ListOutcomes :
                \E owner \in IF err = "nil" THEN OwnerFilters ELSE {""} :
                  lastOp' =
                    IF err # "nil"
                    THEN [op |-> "list", owner |-> owner,
                          gw |-> <<[m |-> "ListRecords"]>>, gwErr |-> err, ret |-> err,
                          views |-> <<>>, status |-> 500, body |-> err]
                    ELSE [op |-> "list", owner |-> owner,
                          gw |-> <<[m |-> "ListRecords"]>>, gwErr |-> err, ret |-> "nil",
                          views |-> ListNamespaces(store, owner, now),
                          status |-> 200, body |-> "views"]
        /\ UNCHANGED <<store, now, made, delVars>>

-----------------------------------------------------------------------------
(* The wall clock *)

\* a fraction of a second passes; bounded to the first second of an hour
Tick ==
    /\ now.t < TicksPerSecond
    /\ now' = Add(now, [h |-> 0, t |-> 1])
    /\ lastOp' = NoOp
    /\ UNCHANGED <<store, made, delVars>>

\* an hour passes
AdvanceHour ==
    /\ now.h < MaxHours
    /\ now' = Add(now, [h |-> 1, t |-> 0])
    /\ lastOp' = NoOp
    /\ UNCHANGED <<store, made, delVars>>

-----------------------------------------------------------------------------
(* Client.DeleteNamespace and its handler.  One delete call is in flight   *)
(* at a time; the manager keeps no state between calls, and what other     *)
(* callers do to the record is part of the gateway's answers.              *)

\* what Namespaces().Delete may answer
DeleteOutcomes(name) ==
    IF name \in StoreNames(store) THEN {"nil", "transport", "other"}
    ELSE {"notFound", "transport", "other"}

\* what Namespaces().Get(ctx, ...) may answer: a request under a context whose
\* deadline has passed fails with the context's error and reaches no gateway
GetOutcomes(name) ==
    IF elapsed >= TimeoutMs THEN {"deadlineExceeded"}
    ELSE IF name \in StoreNames(store) THEN {"record", "transport", "other"}
    ELSE {"notFound", "transport", "other"}

\* the handler's response to DeleteNamespace returning err
DeleteResponse(err) ==
    IF err # "nil" THEN [status |-> 500, body |-> err]
    ELSE [status |-> 200, body |-> "Namespace deleted successfully"]

\* DeleteNamespace returns err by the return statement named site
DeleteReturn(site, err) ==
    /\ dpc' = "done"
    /\ outcome' = site
    /\ dret' = err
    /\ dresp' = DeleteResponse(err)

\* (mutation) the error of the Delete call is dropped: the loop is entered
Submitted_ErrorIgnored(name, err) ==
    /\ elapsed' = 0
    /\ stayed' = (err = "nil")
    /\ dpc' = "poll"
    /\ store' = IF err = "nil"
                THEN [store EXCEPT ![Find(store, name)].terminating = TRUE]
                ELSE store
    /\ UNCHANGED <<outcome, dret, dresp>>

\* DeleteNamespace after the gateway answered its Delete call with err:
\* return the error, or start the 30 s timer and enter the loop
Submitted(name, err) ==
    IF err # "nil"
    THEN /\ DeleteReturn("SubmitFailed", err)
         /\ UNCHANGED <<store, elapsed, stayed>>
    ELSE /\ store' = [store EXCEPT ![Find(store, name)].terminating = TRUE]
         /\ elapsed' = 0
         /\ stayed' = TRUE
         /\ dpc' = "poll"
         /\ UNCHANGED <<outcome, dret, dresp>>

\* the handler is entered and DeleteNamespace submits the delete
DeleteSubmit ==
    /\ dpc = "idle"
    /\ \E method \in {"DELETE", "GET"} :
          IF method # "DELETE"
          THEN /\ dpc' = "rejected"
               /\ dresp' = [status |-> 405, body |-> "Method not allowed. Use DELETE"]
               /\ UNCHANGED <<store, dname, elapsed, delCount, getCount, submitErr,
                              lastPoll, stayed, reqCancelled, polledAfterCancel,
                              outcome, dret>>
          ELSE \E name \in Names : \E err \in DeleteOutcomes(name) :
                 /\ dname' = name
                 /\ delCount' = delCount + 1
                 /\ submitErr' = err
                 /\ lastPoll' = "none"
                 /\ UNCHANGED <<getCount, reqCancelled, polledAfterCancel>>
                 /\ Submitted(name, err)
    /\ lastOp' = NoOp
    /\ UNCHANGED <<now, made>>

\* (mutation) only a not-found answer ends the call with success; after any
\* other error the loop goes on to its select
DeletePoll_NotFoundOnly ==
    /\ dpc = "poll"
    /\ \E res \in GetOutcomes(dname) :
          /\ lastPoll' = res
          /\ getCount' = getCount + 1
          /\ polledAfterCancel' = (polledAfterCancel \/ reqCancelled)
          /\ IF res = "notFound"
             THEN DeleteReturn("Deleted", "nil")
             ELSE /\ dpc' = "select"
                  /\ UNCHANGED <<outcome, dret, dresp>>
    /\ lastOp' = NoOp
    /\ UNCHANGED <<store, now, made, dname, elapsed, delCount, submitErr, stayed,
                   reqCancelled>>

\* the loop's Get: any error ends the call with success
DeletePoll ==
    /\ dpc = "poll"
    /\ \E res \in GetOutcomes(dname) :
          /\ lastPoll' = res
          /\ getCount' = getCount + 1
          /\ polledAfterCancel' = (polledAfterCancel \/ reqCancelled)
          /\ IF res # "record"
             THEN DeleteReturn("Deleted", "nil")
             ELSE /\ dpc' = "select"
                  /\ UNCHANGED <<outcome, dret, dresp>>
    /\ lastOp' = NoOp
    /\ UNCHANGED <<store, now, made, dname, elapsed, delCount, submitErr, stayed,
                   reqCancelled>>

\* (mutation) the select returns the loop's err, which is nil there, instead
\* of ctx.Err()
DeleteSelect_ReturnsErr ==
    /\ dpc = "select"
    /\ IF elapsed >= TimeoutMs
       THEN /\ DeleteReturn("ConfirmTimeout", "nil")
            /\ UNCHANGED elapsed
       ELSE /\ elapsed' = elapsed + PollIntervalMs
            /\ dpc' = "poll"
            /\ UNCHANGED <<outcome, dret, dresp>>
    /\ lastOp' = NoOp
    /\ UNCHANGED <<store, now, made, dname, delCount, getCount, submitErr, lastPoll,
                   stayed, reqCancelled, polledAfterCancel>>

\* (mutation) the default branch loops without its time.Sleep
DeleteSelect_NoSleep ==
    /\ dpc = "select"
    /\ IF elapsed >= TimeoutMs
       THEN /\ DeleteReturn("ConfirmTimeout", "deadlineExceeded")
            /\ UNCHANGED elapsed
       ELSE /\ dpc' = "poll"
            /\ UNCHANGED <<elapsed, outcome, dret, dresp>>
    /\ lastOp' = NoOp
    /\ UNCHANGED <<store, now, made, dname, delCount, getCount, submitErr, lastPoll,
                   stayed, reqCancelled, polledAfterCancel>>

\* the select on ctx.Done(): return ctx.Err(), or sleep and loop
DeleteSelect ==
    /\ dpc = "select"
    /\ IF elapsed >= TimeoutMs
       THEN /\ DeleteReturn("ConfirmTimeout", "deadlineExceeded")
            /\ UNCHANGED elapsed
       ELSE /\ elapsed' = elapsed + PollIntervalMs
            /\ dpc' = "poll"
            /\ UNCHANGED <<outcome, dret, dresp>>
    /\ lastOp' = NoOp
    /\ UNCHANGED <<store, now, made, dname, delCount, getCount, submitErr, lastPoll,
                   stayed, reqCancelled, polledAfterCancel>>

\* time the call spends beyond its sleeps: the Get's round trip, scheduling
DeleteDelay ==
    /\ dpc \in {"poll", "select"}
    /\ elapsed < TimeoutMs + PollIntervalMs
    /\ elapsed' = elapsed + PollIntervalMs
    /\ lastOp' = NoOp
    /\ UNCHANGED <<store, now, made, dpc, dname, delCount, getCount, submitErr,
                   lastPoll, stayed, reqCancelled, polledAfterCancel, outcome, dret,
                   dresp>>

\* the client goes away while the call is polling, before the 30 s deadline:
\* net/http cancels r.Context(), which the handler never hands to
\* DeleteNamespace
CancelRequest ==
    /\ dpc \in {"poll", "select"}
    /\ elapsed < TimeoutMs
    /\ ~reqCancelled
    /\ reqCancelled' = TRUE
    /\ lastOp' = NoOp
    /\ UNCHANGED <<store, now, made, dpc, dname, elapsed, delCount, getCount, submitErr,
                   lastPoll, stayed, polledAfterCancel, outcome, dret, dresp>>

\* the response is written; the next delete request may arrive
DeleteDone ==
    /\ dpc \in {"done", "rejected"}
    /\ dpc' = "idle"
    /\ dname' = ""
    /\ elapsed' = 0
    /\ delCount' = 0
    /\ getCount' = 0
    /\ submitErr' = "none"
    /\ lastPoll' = "none"
    /\ stayed' = FALSE
    /\ reqCancelled' = FALSE
    /\ polledAfterCancel' = FALSE
    /\ outcome' = "none"
    /\ dret' = "none"
    /\ dresp' = [status |-> 0, body |-> ""]
    /\ lastOp' = NoOp
    /\ UNCHANGED <<store, now, made>>

\* the gateway finishes removing a record whose deletion it accepted
Finalize ==
    /\ \E i \in 1..Len(store) :
          /\ store[i].terminating
          /\ store' = RemoveName(store, store[i].name)
          /\ made' = [n \in DOMAIN made \ {store[i].name} |-> made[n]]
          /\ stayed' = (stayed /\ store[i].name # dname)
    /\ lastOp' = NoOp
    /\ UNCHANGED <<now, dpc, dname, elapsed, delCount, getCount, submitErr, lastPoll,
                   reqCancelled, polledAfterCancel, outcome, dret, dresp>>

-----------------------------------------------------------------------------
(* Specifications *)

InitCalls ==
    /\ now = [h |-> 0, t |-> 0]
    /\ made = [n \in {} |-> NoOp]
    /\ lastOp = NoOp
    /\ dpc = "idle"
    /\ dname = ""
    /\ elapsed = 0
    /\ delCount = 0
    /\ getCount = 0
    /\ submitErr = "none"
    /\ lastPoll = "none"
    /\ stayed = FALSE
    /\ reqCancelled = FALSE
    /\ polledAfterCancel = FALSE
    /\ outcome = "none"
    /\ dret = "none"
    /\ dresp = [status |-> 0, body |-> ""]

Init == store \in FewStores /\ InitCalls

Next ==
    \/ HandleCreateNamespaceRequest
    \/ HandleListNamespacesRequest
    \/ DeleteSubmit
    \/ DeletePoll
    \/ DeleteSelect
    \/ DeleteDelay
    \/ CancelRequest
    \/ DeleteDone
    \/ Finalize
    \/ Tick
    \/ AdvanceHour

\* every operation, every gateway answer, both clocks; the specifications
\* below are the parts of it the properties are checked under
Spec == Init /\ [][Next]_vars

\* the delete protocol against the gateway, with its timer and the caller's
\* cancellation
NextDelete ==
    \/ DeleteSubmit
    \/ DeletePoll
    \/ DeleteSelect
    \/ DeleteDelay
    \/ CancelRequest
    \/ DeleteDone
    \/ Finalize

SpecDelete == Init /\ [][NextDelete]_vars

\* the same, with the call in flight taking its next step in the end: its
\* goroutine is scheduled, and the Get under the 30 s context and the Sleep
\* both return
FairSpecDelete ==
    SpecDelete /\ WF_vars(DeletePoll) /\ WF_vars(DeleteSelect)

\* create, list and delete calls interleaved, the delete call pacing itself
\* by its sleeps alone
NextLife ==
    \/ HandleCreateNamespaceRequest
    \/ HandleListNamespacesRequest
    \/ DeleteSubmit
    \/ DeletePoll
    \/ DeleteSelect
    \/ DeleteDone
    \/ Finalize

InitLife ==
    /\ store = <<InitRecord("b", [purpose |-> Str("system")]),
                 InitRecord("a", [owner |-> Str("bob")])>>
    /\ InitCalls

SpecLife == InitLife /\ [][NextLife]_vars

\* create and list under a moving wall clock
NextTTL ==
    \/ HandleCreateNamespaceRequest
    \/ HandleListNamespacesRequest
    \/ Tick
    \/ AdvanceHour

SpecTTL == Init /\ [][NextTTL]_vars

\* list over every store of up to two records
InitList == store \in InitStores /\ InitCalls

NextList ==
    \/ HandleListNamespacesRequest
    \/ Tick
    \/ AdvanceHour

SpecList == InitList /\ [][NextList]_vars

-----------------------------------------------------------------------------
(* Properties of the delete call, under SpecDelete *)

GatewayErrors == {"notFound", "transport", "other", "conflict"}

\* C1: whenever DeleteNamespace returns success, its last GetRecord poll
\* returned not-found; success never rests on a poll that failed otherwise.
C1_SuccessMeansNotFound ==
    (dpc = "done" /\ dret = "nil") => lastPoll = "notFound"

\* C2: if the gateway accepted the delete and the record stayed resolvable for
\* the full 30 seconds, no poll meeting a gateway failure, the call ends as
\* ConfirmTimeout with a failure, never as Deleted.
C2_ResolvableThroughoutIsTimeout ==
    (/\ dpc = "done"
     /\ submitErr = "nil"
     /\ stayed
     /\ elapsed >= TimeoutMs
     /\ lastPoll \notin GatewayErrors)
    => (outcome = "ConfirmTimeout" /\ dret # "nil")

\* C3: if the gateway rejects the DeleteRecord call, the call has already
\* failed as SubmitFailed with the gateway's error, answered 500 with that
\* error, and has issued no GetRecord poll.
C3_RejectedSubmitFailsAtOnce ==
    (dpc \notin {"idle", "rejected"} /\ submitErr # "nil")
    => /\ dpc = "done"
       /\ outcome = "SubmitFailed"
       /\ dret = submitErr
       /\ dresp = [status |-> 500, body |-> submitErr]
       /\ lastPoll = "none"
       /\ delCount = 1

C3_Witness ==
    dpc = "done" /\ submitErr = "notFound" /\ dret = "notFound" /\ lastPoll = "none"

\* C4: once the request's context is cancelled during the confirm phase,
\* before the deadline, no further GetRecord poll is issued and the call
\* returns the cancellation.
C4_CancelStopsPolling ==
    /\ ~polledAfterCancel
    /\ (dpc = "done" /\ reqCancelled) => dret = "canceled"

-----------------------------------------------------------------------------
(* Properties of list, in the state a list call has just returned in:     *)
(* store and now are then what the call read.                             *)

Listed == lastOp.op = "list" /\ lastOp.ret = "nil"

\* the view of the record named n in the call's result, if there is one
HasView(n) == \E j \in 1..Len(lastOp.views) : lastOp.views[j].Name = n
TheView(n) == lastOp.views[CHOOSE j \in 1..Len(lastOp.views) : lastOp.views[j].Name = n]

\* creation time + N hours, exactly
ExactExpiry(n) == Add(made[n].at, [h |-> made[n].ttl, t |-> 0])

\* the instant the record's expires_at annotation reads as
WrittenExpiry(n) == ParseRFC3339(Lookup(store[Find(store, n)].ann, "expires_at")).time

\* whole hours in a positive duration, 0 for any other
FloorHours(d) == IF Positive(d) THEN d.h ELSE 0

C7_FilterIsExactSubset ==
    Listed =>
        LET all == ListNamespaces(store, "", now)
            f == lastOp.owner
        IN  /\ Len(all) = Len(store)
            /\ \A i \in 1..Len(store) :
                  /\ all[i].Name = store[i].name
                  /\ all[i].Owner = Lookup(store[i].ann, "owner")
            /\ f = "" => lastOp.views = all
            /\ f # "" =>
                  /\ lastOp.views = SelectSeq(all, LAMBDA v : v.Owner = Str(f))
                  /\ \A i \in 1..Len(store) :
                        HasView(store[i].name) <=>
                            ("owner" \in DOMAIN store[i].ann
                               /\ store[i].ann["owner"] = Str(f))

C7_Witness ==
    /\ Listed
    /\ lastOp.owner = "alice"
    /\ Len(store) = 2
    /\ "owner" \notin DOMAIN store[1].ann
    /\ Len(lastOp.views) = 1
    /\ lastOp.views[1].Name = store[2].name

\* a record whose expires_at is missing or is no timestamp
NoExpiry(r) == "expires_at" \notin DOMAIN r.ann \/ "ts" \notin DOMAIN r.ann["expires_at"]

\* C8: a record without a parseable expires_at never makes list fail: list
\* fails only when the gateway's List fails; the record, when the filter keeps
\* it, appears with remainingTTLHours 0 and the zero expiresAt; and the other
\* records' views are what they are without it.
C8_MissingExpiryIsZero ==
    /\ lastOp.op = "list" => lastOp.ret = lastOp.gwErr
    /\ Listed =>
          /\ \A i \in 1..Len(store) :
                (NoExpiry(store[i]) /\ ~Skipped(Lookup(store[i].ann, "owner"), lastOp.owner))
                => /\ HasView(store[i].name)
                   /\ TheView(store[i].name).TTL = 0
                   /\ TheView(store[i].name).ExpiresAt = ZeroTime
          /\ SelectSeq(lastOp.views, LAMBDA v : v.ExpiresAt # ZeroTime)
               = ListNamespaces(SelectSeq(store, LAMBDA r : ~NoExpiry(r)),
                                lastOp.owner, now)

C8_Witness ==
    /\ Listed
    /\ Len(lastOp.views) = 2
    /\ lastOp.views[1].ExpiresAt = ZeroTime
    /\ lastOp.views[1].TTL = 0
    /\ lastOp.views[2].TTL > 0

-----------------------------------------------------------------------------
(* Properties of create *)

\* C9: no step of create, list or delete changes the annotations of a record
\* that exists before and after it; a create for an existing name leaves the
\* store as it is.
C9_AnnotationsWriteOnce ==
    [][ /\ \A i \in 1..Len(store) : \A j \in 1..Len(store') :
              store[i].name = store'[j].name
              => /\ store'[j].ann = store[i].ann
                 /\ store'[j].createdAt = store[i].createdAt
        /\ (lastOp'.op = "create" /\ lastOp'.name \in StoreNames(store))
              => store' = store ]_vars

C9_Witness ==
    /\ lastOp.op = "create"
    /\ lastOp.ret = "conflict"
    /\ lastOp.name \in StoreNames(store)
    /\ dpc = "poll"

\* C10: a create call issues exactly one gateway call, CreateRecord with the
\* call's name and exactly the annotations owner, team and expires_at, and
\* returns the gateway's answer as it is, whatever that answer.
C10_OneCreateRecord ==
    lastOp.op = "create" =>
        /\ Len(lastOp.gw) = 1
        /\ lastOp.gw[1].m = "CreateRecord"
        /\ lastOp.gw[1].name = lastOp.name
        /\ DOMAIN lastOp.gw[1].ann = {"owner", "team", "expires_at"}
        /\ lastOp.gw[1].ann["owner"] = Str(lastOp.owner)
        /\ lastOp.gw[1].ann["team"] = Str(lastOp.team)
        /\ "ts" \in DOMAIN lastOp.gw[1].ann["expires_at"]
        /\ lastOp.ret = lastOp.gwErr
        /\ lastOp.body = (IF lastOp.gwErr = "nil" THEN "Namespace created successfully"
                          ELSE lastOp.gwErr)
        /\ (lastOp.gwErr = "nil") <=> (lastOp.status = 201)
        /\ lastOp.gwErr = "nil" =>
              /\ lastOp.name \in StoreNames(store)
              /\ store[Find(store, lastOp.name)].ann = lastOp.gw[1].ann

C10_Witness ==
    /\ lastOp.op = "create"
    /\ lastOp.gwErr = "transport"
    /\ lastOp.ret = "transport"
    /\ Len(lastOp.gw) = 1

\* C11: every create the handler accepts (any ttl > 0) writes an expires_at
\* that reads as the time of the call + ttlHours hours, to the second of its
\* RFC 3339 text, and so never as an instant earlier than the creation time.
C11_ExpiryIsCallPlusTTL ==
    lastOp.op = "create" =>
        LET written == ParseRFC3339(lastOp.gw[1].ann["expires_at"]).time
        IN  /\ written = TruncSecond(Add(now, [h |-> lastOp.ttl, t |-> 0]))
            /\ ~Positive(Sub(TruncSecond(now), written))

-----------------------------------------------------------------------------
(* Properties of the confirm loop's polls *)

\* what a failed GetRecord poll is: not found, or any other failure
PollFailures == {"notFound", "transport", "other", "deadlineExceeded"}

\* the most polls a call issues: one each PollIntervalMs before the deadline,
\* and one at or after it
MaxPolls == TimeoutMs \div PollIntervalMs + 1

InLoop == dpc \in {"poll", "select"}

\* C12: every delete call terminates.  A call past its submit has issued
\* exactly one DeleteRecord and at most MaxPolls polls; the loop goes from one
\* poll to the next only through a wait of PollIntervalMs; once the deadline
\* has passed, the call's next step is its return; it returns by Deleted or
\* ConfirmTimeout; and a call in the loop always comes to its return.
C12_DeleteTerminates ==
    /\ [](dpc \in {"poll", "select", "done"} =>
            /\ delCount = 1
            /\ getCount <= MaxPolls
            /\ (dpc = "poll" /\ getCount > 0) => elapsed >= getCount * PollIntervalMs)
    /\ [](dpc = "done" /\ submitErr = "nil" => outcome \in {"Deleted", "ConfirmTimeout"})
    /\ [][ /\ (dpc = "select" /\ dpc' = "poll") => elapsed' >= elapsed + PollIntervalMs
           /\ (InLoop /\ elapsed >= TimeoutMs /\ dpc' # dpc) => dpc' = "done"
           /\ (InLoop /\ dpc' = "done") => elapsed' <= TimeoutMs + PollIntervalMs
           /\ delCount' <= 1 ]_vars
    /\ InLoop ~> (dpc = "done")

\* a call that polled at every wait up to the deadline and returned at the
\* poll after it
C12_Witness ==
    /\ dpc = "done"
    /\ delCount = 1
    /\ getCount = MaxPolls
    /\ lastPoll = "deadlineExceeded"

====
